---- MODULE Spec2Model ----
(***************************************************************************)
(* GOnnect4 server: the per-game state machine (lib/game.go, lib/board.go, *)
(* lib/node.go), the player/sender binding (lib/player.go, lib/client.go)  *)
(* and the command router with its timers (server.go, handlers.go,         *)
(* matchmaking.go, websocket.go).                                          *)
(*                                                                         *)
(* Time.  The code stamps instants (TurnStartedAt, LastPlayedAt,           *)
(* CreatedAt) and later reads time.Since(stamp).  The model stores, for    *)
(* each stamp, the time elapsed since it, in seconds; "stamp = time.Now()" *)
(* sets it to 0 and the Tick action adds TickStep to every stamp.  An age  *)
(* saturates at AgeCap, the longest duration the code compares an age with *)
(* or subtracts an age from: every comparison (age > grace, age >= timer   *)
(* duration) and every subtraction floored at zero has the same outcome    *)
(* for AgeCap as for any greater age.  The zero time.Time of a fresh Game  *)
(* is an age of AgeCap.                                                    *)
(***************************************************************************)
EXTENDS Integers, Sequences, FiniteSets, TLC

\* ---------------------------------------------------------------- bounds
NumClients == 2         \* connections accepted during a run
NumPlayerIDs == 2       \* distinct player tokens in use at one time
NumCodes == 2           \* distinct game codes in use at one time
MaxCol == 1             \* clients send play{column} for columns 0..MaxCol and for one column off the board
TickStep == 75          \* seconds added by one Tick
MaxPending == 1         \* timer callbacks of one (game, player) waiting for the server lock
MaxCommands == 5        \* commands the clients send during a run of the whole server
MaxMoves == 3           \* tokens on a board after which the clients of GameSpec send no further play
MaxMatchMoves == 7      \* the same for MatchSpec: seven tokens is the shortest win
MaxQueueCommands == 4   \* commands the clients send during a run of QueueSpec
NumFrameVals == 3       \* the frames sent into one SendChan are numbered modulo NumFrameVals
MaxBoardCol == 3        \* BoardSpec drops tokens in columns 0..MaxBoardCol: four columns hold every kind of run
MaxHeight == 4          \* BoardSpec stacks at most MaxHeight tokens in one of those columns
MaxTokens == 9          \* tokens BoardSpec drops on an empty board: the tenth completes a diagonal of four
MaxHoles == 2           \* empty cells of the nearly full board BoardSpec also starts from

\* ------------------------------------------------------ program constants
Rows == 6
Cols == 7
WinLength == 4
dirCount == 8

CellEmpty == 0
CellPlayer0 == 1
CellPlayer1 == 2

StatusWaiting == 0
StatusPlaying == 1
StatusFinished == 2

ResultNone == 0
ResultPlayer0Win == 1
ResultPlayer1Win == 2
ResultDraw == 3

DirUp == 0
DirUpRight == 1
DirRight == 2
DirDownRight == 3
DirDown == 4
DirDownLeft == 5
DirLeft == 6
DirUpLeft == 7

initialClockDuration == 150
reconnectGracePeriod == 120
minPlayersForMatch == 2
sendBufferSize == 256

ErrGameNotPlaying == "game is not in playing state"
ErrNotYourTurn == "not your turn"
ErrInvalidMove == "invalid move"
ErrGameNotFound == "game not found"
ErrGameFull == "game is full"
ErrPlayerNotFound == "player not found"
ErrPlayerNotInGame == "player not in game"
ErrPlayerAlreadyInGame == "player already in game"
ErrInvalidUsername == "invalid username"
NoErr == "nil"

\* ------------------------------------------------------------- universes
Clients == 1..NumClients
PlayerIDs == 1..NumPlayerIDs
Codes == 1..NumCodes
NoClient == 0           \* a nil Sender
NoPlayerID == 0         \* the empty PlayerID "" / a nil *Player
NoCode == 0             \* the empty GameCode ""
NoGame == [Code |-> NoCode]
NoPlayer == [ID |-> NoPlayerID]
NoMove == [Col |-> -1, Row |-> -1]

Max(a, b) == IF a >= b THEN a ELSE b
AgeCap == Max(initialClockDuration, reconnectGracePeriod)
Older(age) == IF age + TickStep >= AgeCap THEN AgeCap ELSE age + TickStep

\* ----------------------------------------------------- direction.go, node.go
Opposite(d) == (d + 4) % dirCount

\* buildGraph links every node to the nodes one step away that lie on the
\* board; GetNeighbor is that link, NilNode where buildGraph set none.
NilNode == <<-1, -1>>
RowStep(d) == IF d \in {DirUp, DirUpRight, DirUpLeft} THEN -1
              ELSE IF d \in {DirDown, DirDownRight, DirDownLeft} THEN 1 ELSE 0
ColStep(d) == IF d \in {DirLeft, DirUpLeft, DirDownLeft} THEN -1
              ELSE IF d \in {DirRight, DirUpRight, DirDownRight} THEN 1 ELSE 0
GetNeighbor(n, d) ==
    LET r == n[1] + RowStep(d)
        c == n[2] + ColStep(d)
    IN IF r >= 0 /\ r <= Rows - 1 /\ c >= 0 /\ c <= Cols - 1 THEN <<r, c>> ELSE NilNode

Owner(nodes, n) == nodes[n[1]][n[2]]

RECURSIVE walkSequence(_, _, _, _)
walkSequence(nodes, owner, current, d) ==
    IF current # NilNode /\ Owner(nodes, current) = owner
    THEN 1 + walkSequence(nodes, owner, GetNeighbor(current, d), d)
    ELSE 0

countSequence(nodes, n, d) ==
    IF Owner(nodes, n) = CellEmpty THEN 0
    ELSE walkSequence(nodes, Owner(nodes, n), GetNeighbor(n, d), d)

\* CheckWin that counts each line on one side of the node only.
NodeCheckWinOneSided(nodes, n, winLength) ==
    IF Owner(nodes, n) = CellEmpty THEN FALSE
    ELSE \/ 1 + countSequence(nodes, n, DirLeft) >= winLength
         \/ 1 + countSequence(nodes, n, DirDown) >= winLength
         \/ 1 + countSequence(nodes, n, DirDownLeft) >= winLength
         \/ 1 + countSequence(nodes, n, DirDownRight) >= winLength

\* CheckWin that counts along the row of the node only.
NodeCheckWinRowOnly(nodes, n, winLength) ==
    IF Owner(nodes, n) = CellEmpty THEN FALSE
    ELSE 1 + countSequence(nodes, n, DirLeft) + countSequence(nodes, n, DirRight) >= winLength

NodeCheckWin(nodes, n, winLength) ==
    IF Owner(nodes, n) = CellEmpty THEN FALSE
    ELSE \/ 1 + countSequence(nodes, n, DirLeft) + countSequence(nodes, n, DirRight) >= winLength
         \/ 1 + countSequence(nodes, n, DirUp) + countSequence(nodes, n, DirDown) >= winLength
         \/ 1 + countSequence(nodes, n, DirUpRight) + countSequence(nodes, n, DirDownLeft) >= winLength
         \/ 1 + countSequence(nodes, n, DirUpLeft) + countSequence(nodes, n, DirDownRight) >= winLength

\* ------------------------------------------------------------------ board.go
NewBoard ==
    [nodes |-> [r \in 0..(Rows - 1) |-> [c \in 0..(Cols - 1) |-> CellEmpty]],
     colHeights |-> [c \in 0..(Cols - 1) |-> 0]]

canPlay(b, col) == col >= 0 /\ col < Cols /\ b.colHeights[col] < Rows

\* Board.Play: [ok, node, b]
BoardPlay(b, col, player) ==
    IF ~canPlay(b, col) THEN [ok |-> FALSE, node |-> NilNode, b |-> b]
    ELSE LET row == Rows - 1 - b.colHeights[col]
         IN [ok |-> TRUE, node |-> <<row, col>>,
             b |-> [nodes |-> [b.nodes EXCEPT ![row][col] = player],
                    colHeights |-> [b.colHeights EXCEPT ![col] = @ + 1]]]

BoardCheckWin(b, n) == NodeCheckWin(b.nodes, n, WinLength)

BoardIsFull(b) == \A col \in 0..(Cols - 1) : ~(b.colHeights[col] < Rows)

\* Reset that empties the cells and leaves colHeights as they were.
BoardResetKeepsHeights(b) == [NewBoard EXCEPT !.colHeights = b.colHeights]

BoardReset(b) == NewBoard

GetLastPlayedNode(b, col) ==
    IF col < 0 \/ col >= Cols THEN NilNode
    ELSE IF b.colHeights[col] = 0 THEN NilNode
    ELSE <<Rows - b.colHeights[col], col>>

\* ------------------------------------------------------------------- game.go
\* Timer: nil, or a *time.Timer that is armed (will fire after d for
\* playerIndex), or one that was stopped or has fired.
TimerNil == [state |-> "nil", d |-> 0, playerIndex |-> 0]
TimerIdle == [state |-> "idle", d |-> 0, playerIndex |-> 0]
TimerArmed(d, idx) == [state |-> "armed", d |-> d, playerIndex |-> idx]
TimerStop(t) == IF t.state = "armed" THEN TimerIdle ELSE t

NewGame(code, initialClock) ==
    [Code |-> code,
     Board |-> NewBoard,
     Status |-> StatusWaiting,
     Result |-> ResultNone,
     Players |-> [i \in 0..1 |-> NoPlayerID],
     CurrentTurn |-> 0,
     MoveCount |-> 0,
     LastPlayedAt |-> AgeCap,
     CreatedAt |-> 0,
     LastMove |-> NoMove,
     ReplayRequests |-> [i \in 0..1 |-> FALSE],
     InitialClock |-> initialClock,
     TimeRemaining |-> [i \in 0..1 |-> initialClock],
     TurnStartedAt |-> AgeCap,
     Timer |-> TimerNil,
     TimerCallback |-> FALSE]

\* startTimer: [g, sync]; sync says that the callback was called from
\* startTimer itself, on the caller's goroutine.
startTimer(g) ==
    LET g1 == [g EXCEPT !.Timer = TimerStop(@)]
        remaining == g1.TimeRemaining[g1.CurrentTurn]
    IN IF remaining <= 0
       THEN [g |-> g1, sync |-> g1.TimerCallback]
       ELSE [g |-> [g1 EXCEPT !.Timer = TimerArmed(remaining, g1.CurrentTurn)], sync |-> FALSE]

stopTimer(g) ==
    IF g.Timer.state # "nil"
    THEN LET elapsed == g.TurnStartedAt
             left == g.TimeRemaining[g.CurrentTurn] - elapsed
         IN [g EXCEPT !.Timer = TimerStop(@),
                      !.TimeRemaining[g.CurrentTurn] = IF left < 0 THEN 0 ELSE left]
    ELSE g

start(g, first) ==
    startTimer([g EXCEPT !.CurrentTurn = first,
                         !.Status = StatusPlaying,
                         !.TurnStartedAt = 0,
                         !.LastPlayedAt = 0])

\* AddPlayer: [ok, g, sync]; first is the draw of randomFirstPlayer.
AddPlayer(g, player, first) ==
    IF g.Status # StatusWaiting THEN [ok |-> FALSE, g |-> g, sync |-> FALSE]
    ELSE IF g.Players[0] = NoPlayerID
         THEN [ok |-> TRUE, g |-> [g EXCEPT !.Players[0] = player], sync |-> FALSE]
    ELSE IF g.Players[1] = NoPlayerID
         THEN LET s == start([g EXCEPT !.Players[1] = player], first)
              IN [ok |-> TRUE, g |-> s.g, sync |-> s.sync]
    ELSE [ok |-> FALSE, g |-> g, sync |-> FALSE]

\* Play with the timer stopped before the guards instead of after them.
PlayStopsTimerFirst(g, playerIdx, col) ==
    LET g1 == stopTimer(g)
    IN IF g.Status # StatusPlaying THEN [err |-> ErrGameNotPlaying, g |-> g1, sync |-> FALSE]
       ELSE IF playerIdx # g.CurrentTurn THEN [err |-> ErrNotYourTurn, g |-> g1, sync |-> FALSE]
       ELSE
         LET p == BoardPlay(g1.Board, col, CellPlayer0 + playerIdx)
         IN IF ~p.ok THEN [err |-> ErrInvalidMove, g |-> g1, sync |-> FALSE]
            ELSE
              LET g2 == [g1 EXCEPT !.Board = p.b,
                                   !.MoveCount = @ + 1,
                                   !.LastPlayedAt = 0,
                                   !.LastMove = [Col |-> p.node[2], Row |-> p.node[1]]]
              IN IF BoardCheckWin(g2.Board, p.node)
                 THEN [err |-> NoErr, sync |-> FALSE,
                       g |-> [g2 EXCEPT !.Status = StatusFinished,
                                        !.Result = ResultPlayer0Win + playerIdx,
                                        !.Timer = TimerStop(@)]]
                 ELSE IF BoardIsFull(g2.Board)
                 THEN [err |-> NoErr, sync |-> FALSE,
                       g |-> [g2 EXCEPT !.Status = StatusFinished,
                                        !.Result = ResultDraw,
                                        !.Timer = TimerStop(@)]]
                 ELSE LET s == startTimer([g2 EXCEPT !.CurrentTurn = 1 - @, !.TurnStartedAt = 0])
                      IN [err |-> NoErr, sync |-> s.sync, g |-> s.g]

\* Play: [err, g, sync]
\* Play that leaves the turn with the mover.
PlayKeepsTurn(g, playerIdx, col) ==
    IF g.Status # StatusPlaying THEN [err |-> ErrGameNotPlaying, g |-> g, sync |-> FALSE]
    ELSE IF playerIdx # g.CurrentTurn THEN [err |-> ErrNotYourTurn, g |-> g, sync |-> FALSE]
    ELSE
      LET g1 == stopTimer(g)
          p == BoardPlay(g1.Board, col, CellPlayer0 + playerIdx)
      IN IF ~p.ok THEN [err |-> ErrInvalidMove, g |-> g1, sync |-> FALSE]
         ELSE
           LET g2 == [g1 EXCEPT !.Board = p.b,
                                !.MoveCount = @ + 1,
                                !.LastPlayedAt = 0,
                                !.LastMove = [Col |-> p.node[2], Row |-> p.node[1]]]
           IN IF BoardCheckWin(g2.Board, p.node)
              THEN [err |-> NoErr, sync |-> FALSE,
                    g |-> [g2 EXCEPT !.Status = StatusFinished,
                                     !.Result = ResultPlayer0Win + playerIdx,
                                     !.Timer = TimerStop(@)]]
              ELSE IF BoardIsFull(g2.Board)
              THEN [err |-> NoErr, sync |-> FALSE,
                    g |-> [g2 EXCEPT !.Status = StatusFinished,
                                     !.Result = ResultDraw,
                                     !.Timer = TimerStop(@)]]
              ELSE LET s == startTimer([g2 EXCEPT !.TurnStartedAt = 0])
                   IN [err |-> NoErr, sync |-> s.sync, g |-> s.g]

Play(g, playerIdx, col) ==
    IF g.Status # StatusPlaying THEN [err |-> ErrGameNotPlaying, g |-> g, sync |-> FALSE]
    ELSE IF playerIdx # g.CurrentTurn THEN [err |-> ErrNotYourTurn, g |-> g, sync |-> FALSE]
    ELSE
      LET g1 == stopTimer(g)
          p == BoardPlay(g1.Board, col, CellPlayer0 + playerIdx)
      IN IF ~p.ok THEN [err |-> ErrInvalidMove, g |-> g1, sync |-> FALSE]
         ELSE
           LET g2 == [g1 EXCEPT !.Board = p.b,
                                !.MoveCount = @ + 1,
                                !.LastPlayedAt = 0,
                                !.LastMove = [Col |-> p.node[2], Row |-> p.node[1]]]
           IN IF BoardCheckWin(g2.Board, p.node)
              THEN [err |-> NoErr, sync |-> FALSE,
                    g |-> [g2 EXCEPT !.Status = StatusFinished,
                                     !.Result = ResultPlayer0Win + playerIdx,
                                     !.Timer = TimerStop(@)]]
              ELSE IF BoardIsFull(g2.Board)
              THEN [err |-> NoErr, sync |-> FALSE,
                    g |-> [g2 EXCEPT !.Status = StatusFinished,
                                     !.Result = ResultDraw,
                                     !.Timer = TimerStop(@)]]
              ELSE LET s == startTimer([g2 EXCEPT !.CurrentTurn = 1 - @, !.TurnStartedAt = 0])
                   IN [err |-> NoErr, sync |-> s.sync, g |-> s.g]

\* Forfeit that finishes the game and leaves Result as it was.
ForfeitKeepsResult(g, loserIdx) ==
    IF g.Status # StatusPlaying THEN g
    ELSE [g EXCEPT !.Timer = TimerStop(@),
                   !.Status = StatusFinished]

\* Forfeit without its guard on Status.
ForfeitUnguarded(g, loserIdx) ==
    [g EXCEPT !.Timer = TimerStop(@),
              !.Status = StatusFinished,
              !.Result = (1 - loserIdx) + 1]

Forfeit(g, loserIdx) ==
    IF g.Status # StatusPlaying THEN g
    ELSE [g EXCEPT !.Timer = TimerStop(@),
                   !.Status = StatusFinished,
                   !.Result = (1 - loserIdx) + 1]

\* swapBeginningPlayer that leaves the players where they are.
swapBeginningPlayerKeepsOrder(g) == g

swapBeginningPlayer(g) ==
    [g EXCEPT !.Players = [i \in 0..1 |-> g.Players[1 - i]]]

\* reset that leaves MoveCount as it was.
resetKeepsMoveCount(g) ==
    startTimer([g EXCEPT !.Timer = TimerStop(@),
                         !.Board = BoardReset(@),
                         !.Status = StatusPlaying,
                         !.Result = ResultNone,
                         !.CurrentTurn = 0,
                         !.ReplayRequests = [i \in 0..1 |-> FALSE],
                         !.TurnStartedAt = 0,
                         !.LastPlayedAt = 0,
                         !.LastMove = NoMove,
                         !.TimeRemaining = [i \in 0..1 |-> g.InitialClock]])

\* reset: [g, sync]
reset(g) ==
    startTimer([g EXCEPT !.Timer = TimerStop(@),
                         !.Board = BoardReset(@),
                         !.Status = StatusPlaying,
                         !.Result = ResultNone,
                         !.CurrentTurn = 0,
                         !.MoveCount = 0,
                         !.ReplayRequests = [i \in 0..1 |-> FALSE],
                         !.TurnStartedAt = 0,
                         !.LastPlayedAt = 0,
                         !.LastMove = NoMove,
                         !.TimeRemaining = [i \in 0..1 |-> g.InitialClock]])

\* RequestReplay that also restarts when the caller had asked before.
RequestReplayRepeated(g, playerIdx) ==
    IF g.Status # StatusFinished THEN [restarted |-> FALSE, g |-> g, sync |-> FALSE]
    ELSE LET g1 == [g EXCEPT !.ReplayRequests[playerIdx] = TRUE]
         IN IF g.ReplayRequests[0] \/ g.ReplayRequests[1]
            THEN LET s == reset(g1)
                 IN [restarted |-> TRUE, sync |-> s.sync,
                     g |-> IF s.sync THEN s.g ELSE swapBeginningPlayer(s.g)]
            ELSE [restarted |-> FALSE, g |-> g1, sync |-> FALSE]

\* RequestReplay: [restarted, g, sync]
RequestReplay(g, playerIdx) ==
    IF g.Status # StatusFinished THEN [restarted |-> FALSE, g |-> g, sync |-> FALSE]
    ELSE LET g1 == [g EXCEPT !.ReplayRequests[playerIdx] = TRUE]
         IN IF g1.ReplayRequests[0] /\ g1.ReplayRequests[1]
            THEN LET s == reset(g1)
                 IN [restarted |-> TRUE, sync |-> s.sync,
                     g |-> IF s.sync THEN s.g ELSE swapBeginningPlayer(s.g)]
            ELSE [restarted |-> FALSE, g |-> g1, sync |-> FALSE]

Cleanup(g) == [g EXCEPT !.Timer = TimerNil, !.TimerCallback = FALSE]

GetTimeRemaining(g) ==
    IF g.Status = StatusPlaying
    THEN LET left == g.TimeRemaining[g.CurrentTurn] - g.TurnStartedAt
         IN [g.TimeRemaining EXCEPT ![g.CurrentTurn] = IF left < 0 THEN 0 ELSE left]
    ELSE g.TimeRemaining

GetPlayerIndex(g, id) ==
    IF g.Players[0] # NoPlayerID /\ g.Players[0] = id THEN 0
    ELSE IF g.Players[1] # NoPlayerID /\ g.Players[1] = id THEN 1
    ELSE -1

HasPlayer(g, id) == GetPlayerIndex(g, id) >= 0

\* ============================================================== the server
VARIABLES
    gamesByCode,          \* Server.gamesByCode: code -> Game, NoGame where the map has no entry
    lobby,                \* Server.lobby: PlayerID -> Player (its ID and its sender), NoPlayer where absent
    matchmakingQueue,     \* Server.matchmakingQueue
    queueUpdatePending,   \* Server.queueUpdatePending; TRUE exactly while queueUpdateTimer is scheduled
    clients,              \* every lib.Client: its connection state, PlayerID and GameCode
    timeouts,             \* fired game timers whose callback has not yet taken the server lock
    mu,                   \* holder of Server.mu, NoTask when free
    gameMu,               \* holder of each Game.mu
    waiting,              \* tasks blocked in Server.mu.Lock()
    panicked,             \* a goroutine panicked (send on a closed channel)
    budget,               \* commands the clients may still send in this run
    board,                \* a lib.Board used on its own, outside any game
    sendChans             \* Client.SendChan of every client: the messages buffered, in order

vars == <<gamesByCode, lobby, matchmakingQueue, queueUpdatePending, clients, timeouts,
          mu, gameMu, waiting, panicked, budget, board, sendChans>>

NoTask == <<"none", 0>>
ConnTask(c) == <<"conn", c>>

\* The server's own fields, as one value the handlers transform.
Srv ==
    [gamesByCode |-> gamesByCode, lobby |-> lobby, matchmakingQueue |-> matchmakingQueue,
     queueUpdatePending |-> queueUpdatePending, clients |-> clients]

Exists(S, code) == code # NoCode /\ S.gamesByCode[code] # NoGame
LiveCodes(S) == {code \in Codes : S.gamesByCode[code] # NoGame}
InLobby(S, id) == id # NoPlayerID /\ S.lobby[id] # NoPlayer

\* ----------------------------------------------------- player.go, client.go
\* Client.SendChan: the buffered messages, whether Close has closed it, and
\* whether Send has asked for the connection to be closed as too slow.
NewSendChan == [buf |-> <<>>, closed |-> FALSE, tooSlow |-> FALSE]

\* Client.Send that makes room in a full SendChan by dropping its oldest
\* message.
ClientSendDropsOldest(ch, msg) ==
    IF ch.closed THEN [ch |-> ch, panic |-> TRUE]
    ELSE IF Len(ch.buf) < sendBufferSize
         THEN [ch |-> [ch EXCEPT !.buf = Append(@, msg)], panic |-> FALSE]
    ELSE [ch |-> [ch EXCEPT !.buf = Append(Tail(@), msg)], panic |-> FALSE]

\* Client.Send: [ch, panic].  The select takes the send when the buffer has
\* room and the default branch when it is full; a send on a closed channel
\* panics.
ClientSend(ch, msg) ==
    IF ch.closed THEN [ch |-> ch, panic |-> TRUE]
    ELSE IF Len(ch.buf) < sendBufferSize
         THEN [ch |-> [ch EXCEPT !.buf = Append(@, msg)], panic |-> FALSE]
    ELSE [ch |-> [ch EXCEPT !.tooSlow = TRUE], panic |-> FALSE]

NewPlayer(id) == [ID |-> id, sender |-> NoClient]
SetSender(S, id, s) == [S EXCEPT !.lobby[id].sender = s]
IsConnected(S, id) == S.lobby[id].sender # NoClient

Frame(to, type, code, val) == [to |-> to, type |-> type, code |-> code, val |-> val]

\* Player.Send: the frame goes to the attached sender, if any.
PlayerSend(S, id, type, code, val) ==
    IF InLobby(S, id) /\ S.lobby[id].sender # NoClient
    THEN <<Frame(S.lobby[id].sender, type, code, val)>>
    ELSE <<>>

\* Client.Send on a closed SendChan panics.
SendsOnClosed(S, frames) == \E i \in 1..Len(frames) : S.clients[frames[i].to].state = "closed"

\* ------------------------------------------------------------------ server.go
\* What a handler returns: the server after it, the frames it enqueued in
\* order, the error it reported, and the game whose lock it still holds
\* because startTimer called handleTimeout on the handler's own goroutine.
Done(S, frames, err) == [srv |-> S, frames |-> frames, err |-> err, stuck |-> NoCode, idx |-> -1]
DoneIdx(S, frames, err, idx) == [srv |-> S, frames |-> frames, err |-> err, stuck |-> NoCode, idx |-> idx]
Stuck(S, code, idx) == [srv |-> S, frames |-> <<>>, err |-> NoErr, stuck |-> code, idx |-> idx]

\* sendError that enqueues the error frame for every client.
sendErrorToAll(c, err) == [i \in 1..NumClients |-> Frame(i, "error", NoCode, err)]

sendError(c, err) == <<Frame(c, "error", NoCode, err)>>

\* findGameForClient ranges over the map in Go's unspecified order: every
\* game that has the player is a possible answer of the search.
findGameForClient(S, c) ==
    IF Exists(S, S.clients[c].GameCode) THEN {S.clients[c].GameCode}
    ELSE {code \in LiveCodes(S) : HasPlayer(S.gamesByCode[code], S.clients[c].PlayerID)}

sendGameState(S, id, g) == PlayerSend(S, id, "game_state", g.Code, GetPlayerIndex(g, id))

broadcastToGame(S, g, type, val) ==
    (IF g.Players[0] # NoPlayerID THEN PlayerSend(S, g.Players[0], type, g.Code, val) ELSE <<>>)
    \o (IF g.Players[1] # NoPlayerID THEN PlayerSend(S, g.Players[1], type, g.Code, val) ELSE <<>>)

handleTimeout(S, gameCode, loserIdx) ==
    IF ~Exists(S, gameCode) THEN Done(S, <<>>, NoErr)
    ELSE LET g == Forfeit(S.gamesByCode[gameCode], loserIdx)
             S1 == [S EXCEPT !.gamesByCode[gameCode] = g]
         IN IF g.Status = StatusFinished
            THEN Done(S1, broadcastToGame(S1, g, "game_over", g.Result), NoErr)
            ELSE Done(S1, <<>>, NoErr)

\* shouldDelete that reaps a Playing game by its age alone.
shouldDeleteByAgeOnly(S, g) ==
    IF g.Status = StatusFinished THEN g.LastPlayedAt > reconnectGracePeriod
    ELSE IF g.Status = StatusWaiting
         THEN g.Players[0] = NoPlayerID \/ g.CreatedAt > reconnectGracePeriod
    ELSE IF g.Status = StatusPlaying THEN g.LastPlayedAt > reconnectGracePeriod
    ELSE FALSE

shouldDelete(S, g) ==
    IF g.Status = StatusFinished THEN g.LastPlayedAt > reconnectGracePeriod
    ELSE IF g.Status = StatusWaiting
         THEN g.Players[0] = NoPlayerID \/ g.CreatedAt > reconnectGracePeriod
    ELSE IF g.Status = StatusPlaying
         THEN /\ \A i \in 0..1 : ~(g.Players[i] # NoPlayerID /\ InLobby(S, g.Players[i])
                                   /\ IsConnected(S, g.Players[i]))
              /\ g.LastPlayedAt > reconnectGracePeriod
    ELSE FALSE

cleanupStaleGames(S) ==
    LET games == [code \in Codes |->
                    IF S.gamesByCode[code] # NoGame /\ shouldDelete(S, S.gamesByCode[code])
                    THEN NoGame ELSE S.gamesByCode[code]]
        inGame(id) == \E code \in Codes : games[code] # NoGame /\ HasPlayer(games[code], id)
    IN [S EXCEPT !.gamesByCode = games,
                 !.lobby = [id \in PlayerIDs |->
                              IF S.lobby[id] # NoPlayer /\ S.lobby[id].sender = NoClient /\ ~inGame(id)
                              THEN NoPlayer ELSE S.lobby[id]]]

\* --------------------------------------------------------------- handlers.go
\* handleLogin that sends welcome and never a game_state.
handleLoginWelcomeOnly(S, c, usernameOK, priorID, newID, found) ==
    LET reuse == InLobby(S, priorID)
        id == IF reuse THEN priorID ELSE newID
        S1 == IF reuse
              THEN (IF found # NoCode THEN [S EXCEPT !.clients[c].GameCode = found] ELSE S)
              ELSE [S EXCEPT !.lobby[newID] = NewPlayer(newID)]
        S2 == SetSender([S1 EXCEPT !.clients[c].PlayerID = id], id, c)
    IN IF ~reuse /\ ~usernameOK
       THEN Done(S, sendError(c, ErrInvalidUsername), ErrInvalidUsername)
       ELSE Done(S2, PlayerSend(S2, id, "welcome", NoCode, id), NoErr)

\* handleLogin.  newID is the token NewPlayer draws; found is the game the
\* search over gamesByCode stops at (NoCode when no game has the player).
handleLogin(S, c, usernameOK, priorID, newID, found) ==
    LET reuse == InLobby(S, priorID)
        id == IF reuse THEN priorID ELSE newID
        S1 == IF reuse
              THEN (IF found # NoCode THEN [S EXCEPT !.clients[c].GameCode = found] ELSE S)
              ELSE [S EXCEPT !.lobby[newID] = NewPlayer(newID)]
        S2 == SetSender([S1 EXCEPT !.clients[c].PlayerID = id], id, c)
    IN IF ~reuse /\ ~usernameOK
       THEN Done(S, sendError(c, ErrInvalidUsername), ErrInvalidUsername)
       ELSE Done(S2,
                 PlayerSend(S2, id, "welcome", NoCode, id)
                 \o (IF reuse /\ found # NoCode
                     THEN sendGameState(S2, id, S2.gamesByCode[found]) ELSE <<>>),
                 NoErr)

\* handleCreateGame.  code is the code NewGame draws.
handleCreateGame(S, c, code) ==
    LET id == S.clients[c].PlayerID
        cached == S.clients[c].GameCode
    IN IF ~InLobby(S, id)
       THEN Done(S, sendError(c, ErrPlayerNotFound), ErrPlayerNotFound)
       ELSE IF Exists(S, cached) /\ S.gamesByCode[cached].Status # StatusFinished
       THEN Done(S, sendError(c, ErrPlayerAlreadyInGame), ErrPlayerAlreadyInGame)
       ELSE LET g == AddPlayer([NewGame(code, initialClockDuration) EXCEPT !.TimerCallback = TRUE],
                               id, 0).g
                S1 == [S EXCEPT !.gamesByCode[code] = g, !.clients[c].GameCode = code]
            IN Done(S1,
                    PlayerSend(S1, id, "game_created", code, 0) \o sendGameState(S1, id, g),
                    NoErr)

\* handleJoinGame without the branch for a player who is already in the game.
handleJoinGameAddsMember(S, c, code, first) ==
    LET id == S.clients[c].PlayerID
    IN IF ~Exists(S, code)
       THEN Done(S, sendError(c, ErrGameNotFound), ErrGameNotFound)
       ELSE IF ~InLobby(S, id)
       THEN Done(S, sendError(c, ErrPlayerNotFound), ErrPlayerNotFound)
       ELSE LET a == AddPlayer(S.gamesByCode[code], id, first)
                S1 == [S EXCEPT !.gamesByCode[code] = a.g]
                S2 == [S1 EXCEPT !.clients[c].GameCode = code]
            IN IF ~a.ok THEN Done(S, sendError(c, ErrGameFull), ErrGameFull)
               ELSE IF a.sync THEN Stuck(S1, code, -1)
               ELSE Done(S2, broadcastToGame(S2, a.g, "game_start", a.g.CurrentTurn), NoErr)

\* handleJoinGame.  code is data.Code after truncation and upper-casing;
\* first is the draw of randomFirstPlayer.
handleJoinGame(S, c, code, first) ==
    LET id == S.clients[c].PlayerID
    IN IF ~Exists(S, code)
       THEN Done(S, sendError(c, ErrGameNotFound), ErrGameNotFound)
       ELSE IF ~InLobby(S, id)
       THEN Done(S, sendError(c, ErrPlayerNotFound), ErrPlayerNotFound)
       ELSE IF HasPlayer(S.gamesByCode[code], id)
       THEN LET S1 == [S EXCEPT !.clients[c].GameCode = code]
                g == S1.gamesByCode[code]
            IN Done(S1,
                    sendGameState(S1, id, g)
                    \o broadcastToGame(S1, g, "game_state", GetPlayerIndex(g, id)),
                    NoErr)
       ELSE LET a == AddPlayer(S.gamesByCode[code], id, first)
                S1 == [S EXCEPT !.gamesByCode[code] = a.g]
                S2 == [S1 EXCEPT !.clients[c].GameCode = code]
            IN IF ~a.ok THEN Done(S, sendError(c, ErrGameFull), ErrGameFull)
               ELSE IF a.sync THEN Stuck(S1, code, -1)
               ELSE Done(S2, broadcastToGame(S2, a.g, "game_start", a.g.CurrentTurn), NoErr)

\* handlePlay.  found is the game findGameForClient returns (NoCode for nil).
\* handlePlay that broadcasts game_over before the move that caused it.
handlePlayOverFirst(S, c, column, found) ==
    IF found = NoCode
    THEN Done(S, sendError(c, ErrGameNotFound), ErrGameNotFound)
    ELSE
      LET S0 == [S EXCEPT !.clients[c].GameCode = found]
          playerIdx == GetPlayerIndex(S0.gamesByCode[found], S0.clients[c].PlayerID)
          p == Play(S0.gamesByCode[found], playerIdx, column)
          S1 == [S0 EXCEPT !.gamesByCode[found] = p.g]
      IN IF playerIdx < 0
         THEN Done(S0, sendError(c, ErrPlayerNotInGame), ErrPlayerNotInGame)
         ELSE IF p.err # NoErr THEN DoneIdx(S1, sendError(c, p.err), p.err, playerIdx)
         ELSE IF p.sync THEN Stuck(S1, found, playerIdx)
         ELSE DoneIdx(S1,
                      (IF p.g.Status = StatusFinished
                       THEN broadcastToGame(S1, p.g, "game_over", p.g.Result) ELSE <<>>)
                      \o broadcastToGame(S1, p.g, "move", p.g.MoveCount),
                      NoErr, playerIdx)

handlePlay(S, c, column, found) ==
    IF found = NoCode
    THEN Done(S, sendError(c, ErrGameNotFound), ErrGameNotFound)
    ELSE
      LET S0 == [S EXCEPT !.clients[c].GameCode = found]
          playerIdx == GetPlayerIndex(S0.gamesByCode[found], S0.clients[c].PlayerID)
          p == Play(S0.gamesByCode[found], playerIdx, column)
          S1 == [S0 EXCEPT !.gamesByCode[found] = p.g]
      IN IF playerIdx < 0
         THEN Done(S0, sendError(c, ErrPlayerNotInGame), ErrPlayerNotInGame)
         ELSE IF p.err # NoErr THEN DoneIdx(S1, sendError(c, p.err), p.err, playerIdx)
         ELSE IF p.sync THEN Stuck(S1, found, playerIdx)
         ELSE DoneIdx(S1,
                      broadcastToGame(S1, p.g, "move", p.g.MoveCount)
                      \o (IF p.g.Status = StatusFinished
                          THEN broadcastToGame(S1, p.g, "game_over", p.g.Result) ELSE <<>>),
                      NoErr, playerIdx)

handleReplay(S, c, found) ==
    IF found = NoCode
    THEN Done(S, sendError(c, ErrGameNotFound), ErrGameNotFound)
    ELSE
      LET S0 == [S EXCEPT !.clients[c].GameCode = found]
          g == S0.gamesByCode[found]
          playerIdx == GetPlayerIndex(g, S0.clients[c].PlayerID)
          r == RequestReplay(g, playerIdx)
          S1 == [S0 EXCEPT !.gamesByCode[found] = r.g]
      IN IF playerIdx < 0
         THEN Done(S0, sendError(c, ErrPlayerNotInGame), ErrPlayerNotInGame)
         ELSE IF r.sync THEN Stuck(S1, found, playerIdx)
         ELSE DoneIdx(S1,
                      broadcastToGame(S0, g, "replay_request", playerIdx)
                      \o (IF r.restarted
                          THEN broadcastToGame(S1, r.g, "game_start", r.g.CurrentTurn) ELSE <<>>),
                      NoErr, playerIdx)

handleForfeit(S, c, found) ==
    IF found = NoCode
    THEN Done(S, sendError(c, ErrGameNotFound), ErrGameNotFound)
    ELSE
      LET S0 == [S EXCEPT !.clients[c].GameCode = found]
          playerIdx == GetPlayerIndex(S0.gamesByCode[found], S0.clients[c].PlayerID)
          g == Forfeit(S0.gamesByCode[found], playerIdx)
          S1 == [S0 EXCEPT !.gamesByCode[found] = g]
      IN IF playerIdx < 0
         THEN Done(S0, sendError(c, ErrPlayerNotInGame), ErrPlayerNotInGame)
         ELSE DoneIdx(S1, broadcastToGame(S1, g, "game_over", g.Result), NoErr, playerIdx)

handleLeaveLobby(S, c) ==
    LET id == S.clients[c].PlayerID
        cached == S.clients[c].GameCode
        g == S.gamesByCode[cached]
        playerIdx == GetPlayerIndex(g, id)
        f == Forfeit(g, playerIdx)
        S1 == IF ~Exists(S, cached) THEN S
              ELSE IF g.Status = StatusWaiting THEN [S EXCEPT !.gamesByCode[cached] = NoGame]
              ELSE IF g.Status = StatusPlaying /\ playerIdx >= 0
                   THEN [S EXCEPT !.gamesByCode[cached] = f]
              ELSE S
        over == IF Exists(S, cached) /\ g.Status = StatusPlaying /\ playerIdx >= 0
                THEN broadcastToGame(S1, f, "game_over", f.Result) ELSE <<>>
        S2 == [S1 EXCEPT !.clients[c].GameCode = NoCode]
    IN Done(S2, over \o PlayerSend(S2, id, "welcome", NoCode, id), NoErr)

\* ------------------------------------------------------------ matchmaking.go
InQueue(q, id) == \E i \in 1..Len(q) : q[i] = id

\* the queue without its first occurrence of id
RemoveFirst(q, id) ==
    IF ~InQueue(q, id) THEN q
    ELSE LET i == CHOOSE k \in 1..Len(q) : q[k] = id /\ \A j \in 1..(k - 1) : q[j] # id
         IN SubSeq(q, 1, i - 1) \o SubSeq(q, i + 1, Len(q))

\* broadcastQueueUpdate arms the fan-out timer unless one is already pending.
broadcastQueueUpdate(S) ==
    IF S.queueUpdatePending THEN S ELSE [S EXCEPT !.queueUpdatePending = TRUE]

\* The body of the timer that broadcastQueueUpdate arms.
queueUpdateFanOut(S) ==
    LET S1 == [S EXCEPT !.queueUpdatePending = FALSE]
        queueSize == Len(S1.matchmakingQueue)
        ids == {id \in PlayerIDs : InLobby(S1, id) /\ IsConnected(S1, id)}
        RECURSIVE each(_)
        each(rest) ==
            IF rest = {} THEN <<>>
            ELSE LET id == CHOOSE x \in rest : \A y \in rest : x <= y
                 IN PlayerSend(S1, id, "queue_update", NoCode, queueSize) \o each(rest \ {id})
    IN Done(S1, each(ids), NoErr)

\* tryMatchPlayers that leaves the queue as it is and pairs nobody.
tryMatchPlayersNever(S, code, first) == Done(S, <<>>, NoErr)

\* tryMatchPlayers.  code and first are the draws of NewGame and start.
tryMatchPlayers(S, code, first) ==
    IF Len(S.matchmakingQueue) < minPlayersForMatch THEN Done(S, <<>>, NoErr)
    ELSE
      LET player1ID == S.matchmakingQueue[1]
          player2ID == S.matchmakingQueue[2]
          S1 == [S EXCEPT !.matchmakingQueue = SubSeq(@, 3, Len(@))]
          ok1 == InLobby(S1, player1ID) /\ IsConnected(S1, player1ID)
          ok2 == InLobby(S1, player2ID) /\ IsConnected(S1, player2ID)
          back1 == IF ok1 THEN <<player1ID>> \o S1.matchmakingQueue ELSE S1.matchmakingQueue
          back2 == IF ok2 THEN <<player2ID>> \o back1 ELSE back1
          g1 == AddPlayer([NewGame(code, initialClockDuration) EXCEPT !.TimerCallback = TRUE],
                          player1ID, first).g
          a2 == AddPlayer(g1, player2ID, first)
          S2 == [S1 EXCEPT !.gamesByCode[code] = a2.g]
          S3 == broadcastQueueUpdate(S2)
      IN IF ~ok1 \/ ~ok2
         THEN Done(broadcastQueueUpdate([S1 EXCEPT !.matchmakingQueue = back2]), <<>>, NoErr)
         ELSE IF a2.sync THEN Stuck(S1, code, -1)
         ELSE Done(S3, broadcastToGame(S3, a2.g, "game_start", a2.g.CurrentTurn), NoErr)

\* handleJoinMatchmaking that appends without looking for the player in the
\* queue and without trying a match.
handleJoinMatchmakingOnlyAppends(S, c, code, first) ==
    LET id == S.clients[c].PlayerID
        S1 == [S EXCEPT !.matchmakingQueue = Append(@, id)]
    IN IF ~InLobby(S, id)
       THEN Done(S, sendError(c, ErrPlayerNotFound), ErrPlayerNotFound)
       ELSE Done(broadcastQueueUpdate(S1),
                 PlayerSend(S1, id, "matchmaking_searching", NoCode, 0), NoErr)

handleJoinMatchmaking(S, c, code, first) ==
    LET id == S.clients[c].PlayerID
        S1 == [S EXCEPT !.matchmakingQueue = Append(@, id)]
        searching == PlayerSend(S1, id, "matchmaking_searching", NoCode, 0)
        S2 == broadcastQueueUpdate(S1)
        m == tryMatchPlayers(S2, code, first)
    IN IF ~InLobby(S, id)
       THEN Done(S, sendError(c, ErrPlayerNotFound), ErrPlayerNotFound)
       ELSE IF InQueue(S.matchmakingQueue, id) THEN Done(S, <<>>, NoErr)
       ELSE IF Len(S2.matchmakingQueue) >= minPlayersForMatch
            THEN [m EXCEPT !.frames = searching \o @]
       ELSE Done(S2, searching, NoErr)

handleLeaveMatchmaking(S, c) ==
    Done(broadcastQueueUpdate([S EXCEPT !.matchmakingQueue = RemoveFirst(@, S.clients[c].PlayerID)]),
         <<>>, NoErr)

\* -------------------------------------------------------------- websocket.go
\* The deferred cleanup of handleWebSocket, client.Close() included.
connectionCleanup(S, c) ==
    LET id == S.clients[c].PlayerID
        S1 == IF InLobby(S, id) THEN SetSender(S, id, NoClient) ELSE S
        wasInQueue == InQueue(S1.matchmakingQueue, id)
        S2 == [S1 EXCEPT !.matchmakingQueue = RemoveFirst(@, id)]
        S3 == IF wasInQueue THEN broadcastQueueUpdate(S2) ELSE S2
        S4 == IF id # NoPlayerID THEN S3 ELSE S
        S5 == cleanupStaleGames(S4)
    IN Done([S5 EXCEPT !.clients[c].state = "closed"], <<>>, NoErr)

\* ================================================================== actions
Init ==
    /\ gamesByCode = [code \in Codes |-> NoGame]
    /\ lobby = [id \in PlayerIDs |-> NoPlayer]
    /\ matchmakingQueue = <<>>
    /\ queueUpdatePending = FALSE
    /\ clients = [c \in Clients |-> [state |-> "new", PlayerID |-> NoPlayerID, GameCode |-> NoCode]]
    /\ timeouts = [code \in Codes |-> [i \in 0..1 |-> 0]]
    /\ mu = NoTask
    /\ gameMu = [code \in Codes |-> NoTask]
    /\ waiting = {}
    /\ panicked = FALSE
    /\ budget = MaxCommands
    /\ board = NewBoard
    /\ sendChans = [c \in Clients |-> NewSendChan]

\* A task can take Server.mu: the lock is free and the process is alive.
CanLock == mu = NoTask /\ ~panicked

\* The outcome R of a handler run by task under Server.mu.  A send on a
\* closed channel panics: the model records it and stops there.  A handler
\* that reached handleTimeout through startTimer stays blocked in
\* Server.mu.Lock(), holding Server.mu and the game's lock.
Apply(task, R) ==
    IF SendsOnClosed(Srv, R.frames)
    THEN /\ panicked' = TRUE
         /\ UNCHANGED <<gamesByCode, lobby, matchmakingQueue, queueUpdatePending, clients,
                        mu, gameMu, waiting>>
    ELSE /\ gamesByCode' = R.srv.gamesByCode
         /\ lobby' = R.srv.lobby
         /\ matchmakingQueue' = R.srv.matchmakingQueue
         /\ queueUpdatePending' = R.srv.queueUpdatePending
         /\ clients' = R.srv.clients
         /\ IF R.stuck # NoCode
            THEN /\ mu' = task
                 /\ gameMu' = [gameMu EXCEPT ![R.stuck] = task]
                 /\ waiting' = waiting \cup {task}
            ELSE UNCHANGED <<mu, gameMu, waiting>>
         /\ UNCHANGED panicked

\* Tokens and codes are random strings; a draw is taken not to repeat one
\* that is still in use anywhere in the server.
FreshIDs ==
    {id \in PlayerIDs :
        /\ lobby[id] = NoPlayer
        /\ \A c \in Clients : clients[c].PlayerID # id
        /\ ~InQueue(matchmakingQueue, id)}
FreshCodes ==
    {code \in Codes :
        /\ gamesByCode[code] = NoGame
        /\ \A c \in Clients : clients[c].GameCode # code
        /\ \A i \in 0..1 : timeouts[code][i] = 0}
GamesOf(id) == {code \in LiveCodes(Srv) : HasPlayer(gamesByCode[code], id)}
OrNone(set) == IF set = {} THEN {NoCode} ELSE set
PlayColumns == (0..MaxCol) \cup {Cols}

Connect(c) ==
    /\ ~panicked
    /\ clients[c].state = "new"
    /\ clients' = [clients EXCEPT ![c].state = "open"]
    /\ UNCHANGED <<gamesByCode, lobby, matchmakingQueue, queueUpdatePending, timeouts,
                   mu, gameMu, waiting, panicked>>

Reading(c) == CanLock /\ clients[c].state = "open"

\* Client c sends one more command; the read loop hands it to its handler.
Command(c) == Reading(c) /\ UNCHANGED timeouts

LoginNew(c) ==
    /\ Command(c)
    /\ \E usernameOK \in BOOLEAN, newID \in FreshIDs :
          LET R == handleLogin(Srv, c, usernameOK, NoPlayerID, newID, NoCode)
          IN Apply(ConnTask(c), R)

LoginPrior(c) ==
    /\ Command(c)
    /\ \E priorID \in PlayerIDs :
          /\ InLobby(Srv, priorID)
          /\ \E found \in OrNone(GamesOf(priorID)) :
                LET R == handleLogin(Srv, c, TRUE, priorID, NoPlayerID, found)
                IN Apply(ConnTask(c), R)

CreateGame(c) ==
    /\ Command(c)
    /\ \E code \in FreshCodes :
          LET R == handleCreateGame(Srv, c, code)
          IN Apply(ConnTask(c), R)

JoinGame(c) ==
    /\ Command(c)
    /\ \E code \in Codes, first \in 0..1 :
          LET R == handleJoinGame(Srv, c, code, first)
          IN Apply(ConnTask(c), R)

PlayColumn(c, column) ==
    /\ Command(c)
    /\ \E found \in OrNone(findGameForClient(Srv, c)) :
          LET R == handlePlay(Srv, c, column, found)
          IN Apply(ConnTask(c), R)

PlayMove(c) == \E column \in PlayColumns : PlayColumn(c, column)

Replay(c) ==
    /\ Command(c)
    /\ \E found \in OrNone(findGameForClient(Srv, c)) :
          LET R == handleReplay(Srv, c, found)
          IN Apply(ConnTask(c), R)

ForfeitGame(c) ==
    /\ Command(c)
    /\ \E found \in OrNone(findGameForClient(Srv, c)) :
          LET R == handleForfeit(Srv, c, found)
          IN Apply(ConnTask(c), R)

LeaveLobby(c) ==
    /\ Command(c)
    /\ LET R == handleLeaveLobby(Srv, c)
       IN Apply(ConnTask(c), R)

JoinMatchmaking(c) ==
    /\ Command(c)
    /\ \E code \in FreshCodes, first \in 0..1 :
          LET R == handleJoinMatchmaking(Srv, c, code, first)
          IN Apply(ConnTask(c), R)

LeaveMatchmaking(c) ==
    /\ Command(c)
    /\ LET R == handleLeaveMatchmaking(Srv, c)
       IN Apply(ConnTask(c), R)

\* The read loop ends (error or EOF) and the deferred cleanup runs.
Disconnect(c) ==
    /\ Reading(c)
    /\ LET R == connectionCleanup(Srv, c)
       IN Apply(ConnTask(c), R)
    /\ UNCHANGED timeouts

\* The runtime fires an armed game timer once its duration has elapsed; the
\* callback then waits for Server.mu.
TimerFire(code) ==
    /\ ~panicked
    /\ gamesByCode[code] # NoGame
    /\ LET g == gamesByCode[code]
       IN /\ g.Timer.state = "armed"
          /\ g.TurnStartedAt >= g.Timer.d
          /\ timeouts[code][g.Timer.playerIndex] < MaxPending
          /\ gamesByCode' = [gamesByCode EXCEPT ![code].Timer = TimerIdle]
          /\ timeouts' = IF g.TimerCallback
                         THEN [timeouts EXCEPT ![code][g.Timer.playerIndex] = @ + 1]
                         ELSE timeouts
    /\ UNCHANGED <<lobby, matchmakingQueue, queueUpdatePending, clients, mu, gameMu, waiting,
                   panicked>>

\* The timer callback gets Server.mu and runs handleTimeout.
Timeout(code, loserIdx) ==
    /\ CanLock
    /\ timeouts[code][loserIdx] > 0
    /\ timeouts' = [timeouts EXCEPT ![code][loserIdx] = @ - 1]
    /\ LET R == handleTimeout(Srv, code, loserIdx)
       IN Apply(<<"timer", code>>, R)

\* The queue-update timer fires and its body runs under Server.mu.
QueueUpdate ==
    /\ CanLock
    /\ queueUpdatePending
    /\ LET R == queueUpdateFanOut(Srv)
       IN Apply(<<"queue", 0>>, R)
    /\ UNCHANGED timeouts

\* The ticker of StartPeriodicCleanup.
PeriodicCleanup ==
    /\ CanLock
    /\ LET R == Done(cleanupStaleGames(Srv), <<>>, NoErr)
       IN Apply(<<"reaper", 0>>, R)
    /\ UNCHANGED timeouts

\* TickStep seconds pass.  A stamp ages only while the code can still read
\* it: CreatedAt is read for Waiting games only (cleanupStaleGames), and
\* TurnStartedAt for Playing games only (stopTimer, GetTimeRemaining and the
\* timer armed at that instant); reset and start stamp TurnStartedAt anew
\* before a game is Playing again.
Aged(g) ==
    [g EXCEPT !.CreatedAt = IF g.Status = StatusWaiting THEN Older(@) ELSE @,
              !.LastPlayedAt = Older(@),
              !.TurnStartedAt = IF g.Status = StatusPlaying THEN Older(@) ELSE @]

Tick ==
    /\ ~panicked
    /\ gamesByCode' = [code \in Codes |->
                         IF gamesByCode[code] = NoGame THEN NoGame ELSE Aged(gamesByCode[code])]
    /\ gamesByCode' # gamesByCode
    /\ UNCHANGED <<lobby, matchmakingQueue, queueUpdatePending, clients, timeouts,
                   mu, gameMu, waiting, panicked>>

\* The whole server, in runs where the clients send MaxCommands commands.
Spend == budget > 0 /\ budget' = budget - 1 /\ UNCHANGED <<board, sendChans>>
Free == UNCHANGED <<budget, board, sendChans>>

Next ==
    \/ \E c \in Clients : Connect(c) /\ Free
    \/ \E c \in Clients : LoginNew(c) /\ Spend
    \/ \E c \in Clients : LoginPrior(c) /\ Spend
    \/ \E c \in Clients : CreateGame(c) /\ Spend
    \/ \E c \in Clients : JoinGame(c) /\ Spend
    \/ \E c \in Clients : PlayMove(c) /\ Spend
    \/ \E c \in Clients : Replay(c) /\ Spend
    \/ \E c \in Clients : ForfeitGame(c) /\ Spend
    \/ \E c \in Clients : LeaveLobby(c) /\ Spend
    \/ \E c \in Clients : JoinMatchmaking(c) /\ Spend
    \/ \E c \in Clients : LeaveMatchmaking(c) /\ Spend
    \/ \E c \in Clients : Disconnect(c) /\ Free
    \/ \E code \in Codes : TimerFire(code) /\ Free
    \/ \E code \in Codes, loserIdx \in 0..1 : Timeout(code, loserIdx) /\ Free
    \/ QueueUpdate /\ Free
    \/ PeriodicCleanup /\ Free
    \/ Tick /\ Free

Spec == Init /\ [][Next]_vars

\* ------------------------------------------------ the game state machine alone
\* One room: client 1 has logged in and created a game, client 2 has logged
\* in; from there the two join, play, ask for replays and forfeit while the
\* clock runs and the game's timers fire.
Fresh0 ==
    [gamesByCode |-> [code \in Codes |-> NoGame],
     lobby |-> [id \in PlayerIDs |-> NoPlayer],
     matchmakingQueue |-> <<>>,
     queueUpdatePending |-> FALSE,
     clients |-> [c \in Clients |->
                    [state |-> IF c \in 1..2 THEN "open" ELSE "new",
                     PlayerID |-> NoPlayerID, GameCode |-> NoCode]]]
Room0 ==
    handleCreateGame(
        handleLogin(handleLogin(Fresh0, 1, TRUE, NoPlayerID, 1, NoCode).srv,
                    2, TRUE, NoPlayerID, 2, NoCode).srv,
        1, 1).srv

GameInit ==
    /\ gamesByCode = Room0.gamesByCode
    /\ lobby = Room0.lobby
    /\ matchmakingQueue = Room0.matchmakingQueue
    /\ queueUpdatePending = Room0.queueUpdatePending
    /\ clients = Room0.clients
    /\ timeouts = [code \in Codes |-> [i \in 0..1 |-> 0]]
    /\ mu = NoTask
    /\ gameMu = [code \in Codes |-> NoTask]
    /\ waiting = {}
    /\ panicked = FALSE
    /\ budget = 0
    /\ board = NewBoard
    /\ sendChans = [c \in Clients |-> NewSendChan]

\* The clients stop sending play once a board holds MaxMoves tokens.
MoreMoves == \A code \in Codes : gamesByCode[code] # NoGame => gamesByCode[code].MoveCount < MaxMoves

GameNext ==
    \/ \E c \in Clients : JoinGame(c) /\ Free
    \/ \E c \in Clients : PlayMove(c) /\ MoreMoves /\ Free
    \/ \E c \in Clients : Replay(c) /\ Free
    \/ \E c \in Clients : ForfeitGame(c) /\ Free
    \/ \E code \in Codes : TimerFire(code) /\ Free
    \/ \E code \in Codes, loserIdx \in 0..1 : Timeout(code, loserIdx) /\ Free
    \/ Tick /\ Free

GameSpec == GameInit /\ [][GameNext]_vars

\* ------------------------------------------------------------ one round played
\* The room once client 2 has joined: the two players move in turn, each on a
\* column of the board, while the clock runs and the game's timers fire.
MatchInit ==
    /\ \E first \in 0..1 :
          LET R == handleJoinGame(Room0, 2, 1, first).srv
          IN /\ gamesByCode = R.gamesByCode
             /\ lobby = R.lobby
             /\ clients = R.clients
    /\ matchmakingQueue = <<>>
    /\ queueUpdatePending = FALSE
    /\ timeouts = [code \in Codes |-> [i \in 0..1 |-> 0]]
    /\ mu = NoTask
    /\ gameMu = [code \in Codes |-> NoTask]
    /\ waiting = {}
    /\ panicked = FALSE
    /\ budget = 0
    /\ board = NewBoard
    /\ sendChans = [c \in Clients |-> NewSendChan]

\* Client c is bound to the player whose turn it is in a game with fewer than
\* MaxMatchMoves tokens.
InTurn(c) ==
    \E code \in LiveCodes(Srv) :
        LET g == gamesByCode[code]
        IN /\ g.MoveCount < MaxMatchMoves
           /\ g.Players[g.CurrentTurn] # NoPlayerID
           /\ g.Players[g.CurrentTurn] = clients[c].PlayerID

MatchNext ==
    \/ \E c \in Clients, column \in 0..MaxCol : InTurn(c) /\ PlayColumn(c, column) /\ Free
    \/ \E code \in Codes : TimerFire(code) /\ Free
    \/ \E code \in Codes, loserIdx \in 0..1 : Timeout(code, loserIdx) /\ Free
    \/ Tick /\ Free

MatchSpec == MatchInit /\ [][MatchNext]_vars

\* ------------------------------------------------- one round, fairly scheduled
\* The round of MatchSpec with clients that send any play at any time (in or
\* out of turn, on or off the board).  Time passes, a due timer fires, and a
\* fired callback gets the server lock; no client is obliged to send.
FairNext ==
    \/ \E c \in Clients : PlayMove(c) /\ MoreMoves /\ Free
    \/ \E code \in Codes : TimerFire(code) /\ Free
    \/ \E code \in Codes, loserIdx \in 0..1 : Timeout(code, loserIdx) /\ Free
    \/ Tick /\ Free

Fairness ==
    /\ WF_vars(Tick /\ Free)
    /\ \A code \in Codes : WF_vars(TimerFire(code) /\ Free)
    /\ \A code \in Codes, loserIdx \in 0..1 : WF_vars(Timeout(code, loserIdx) /\ Free)

FairSpec == MatchInit /\ [][FairNext]_vars /\ Fairness

\* ------------------------------------------------------------- the queue alone
\* The room of GameSpec with clients that log in again with a token, join and
\* leave matchmaking and disconnect, MaxQueueCommands commands in all, while
\* the clock runs, timers fire and the reaper sweeps.
QueueInit ==
    /\ gamesByCode = Room0.gamesByCode
    /\ lobby = Room0.lobby
    /\ matchmakingQueue = Room0.matchmakingQueue
    /\ queueUpdatePending = Room0.queueUpdatePending
    /\ clients = Room0.clients
    /\ timeouts = [code \in Codes |-> [i \in 0..1 |-> 0]]
    /\ mu = NoTask
    /\ gameMu = [code \in Codes |-> NoTask]
    /\ waiting = {}
    /\ panicked = FALSE
    /\ budget = MaxQueueCommands
    /\ board = NewBoard
    /\ sendChans = [c \in Clients |-> NewSendChan]

QueueNext ==
    \/ \E c \in Clients : LoginPrior(c) /\ Spend
    \/ \E c \in Clients : JoinMatchmaking(c) /\ Spend
    \/ \E c \in Clients : LeaveMatchmaking(c) /\ Spend
    \/ \E c \in Clients : Disconnect(c) /\ Free
    \/ \E code \in Codes : TimerFire(code) /\ Free
    \/ \E code \in Codes, loserIdx \in 0..1 : Timeout(code, loserIdx) /\ Free
    \/ QueueUpdate /\ Free
    \/ PeriodicCleanup /\ Free
    \/ Tick /\ Free

QueueSpec == QueueInit /\ [][QueueNext]_vars

\* QueueSpec where the runtime fires the queue-update timer and its body gets
\* the server lock whenever it stays able to.
FairQueueSpec == QueueInit /\ [][QueueNext]_vars /\ WF_vars(QueueUpdate /\ Free)

\* ------------------------------------------------------------ the board alone
\* A lib.Board driven directly, as lib's tests drive it: tokens of either
\* colour are dropped and the board is reset.  It starts empty, or filled in a
\* pattern without any line of four up to the top cells of its last MaxHoles
\* columns (a position Board.Play reaches from the empty board).
Tokens(b) == LET RECURSIVE sum(_)
                 sum(col) == IF col < 0 THEN 0 ELSE b.colHeights[col] + sum(col - 1)
             IN sum(Cols - 1)

NearlyFullBoard ==
    LET RECURSIVE DropAll(_)
        DropAll(k) ==
            IF k = 0 THEN NewBoard
            ELSE LET prev == DropAll(k - 1)
                     col == (k - 1) \div Rows
                     row == Rows - 1 - ((k - 1) % Rows)
                 IN IF row = 0 /\ col >= Cols - MaxHoles THEN prev
                    ELSE BoardPlay(prev, col, CellPlayer0 + ((row + col \div 2) % 2)).b
    IN DropAll(Rows * Cols)

BoardInit ==
    /\ board \in {NewBoard, NearlyFullBoard}
    /\ sendChans = [c \in Clients |-> NewSendChan]
    /\ gamesByCode = [code \in Codes |-> NoGame]
    /\ lobby = [id \in PlayerIDs |-> NoPlayer]
    /\ matchmakingQueue = <<>>
    /\ queueUpdatePending = FALSE
    /\ clients = [c \in Clients |-> [state |-> "new", PlayerID |-> NoPlayerID, GameCode |-> NoCode]]
    /\ timeouts = [code \in Codes |-> [i \in 0..1 |-> 0]]
    /\ mu = NoTask
    /\ gameMu = [code \in Codes |-> NoTask]
    /\ waiting = {}
    /\ panicked = FALSE
    /\ budget = 0

\* Board.Play by a caller that keeps to the first columns and to MaxTokens
\* tokens, or fills the last holes of a nearly full board.
BoardDrop(col, player) ==
    /\ \/ /\ col <= MaxBoardCol
          /\ board.colHeights[col] < MaxHeight
          /\ Tokens(board) < MaxTokens
       \/ Tokens(board) >= Rows * Cols - MaxHoles
    /\ BoardPlay(board, col, player).ok
    /\ board' = BoardPlay(board, col, player).b
    /\ UNCHANGED <<gamesByCode, lobby, matchmakingQueue, queueUpdatePending, clients, timeouts,
                   mu, gameMu, waiting, panicked, budget, sendChans>>

BoardClear ==
    /\ board # NewBoard
    /\ board' = BoardReset(board)
    /\ UNCHANGED <<gamesByCode, lobby, matchmakingQueue, queueUpdatePending, clients, timeouts,
                   mu, gameMu, waiting, panicked, budget, sendChans>>

BoardNext ==
    \/ \E col \in 0..(Cols - 1), player \in {CellPlayer0, CellPlayer1} : BoardDrop(col, player)
    \/ BoardClear

BoardSpec == BoardInit /\ [][BoardNext]_vars

\* A game of players 1 and 2 in which it is playerIdx's turn on board b.
GameOn(b, playerIdx) ==
    LET g1 == AddPlayer(NewGame(1, initialClockDuration), 1, playerIdx).g
        g2 == AddPlayer(g1, 2, playerIdx).g
    IN [g2 EXCEPT !.Board = b, !.MoveCount = Tokens(b)]

\* ------------------------------------------------- one round, frames buffered
\* The round of MatchSpec with every frame the handlers enqueue kept in the
\* receiving client's SendChan (the write pumps lag behind).  The clients send
\* the plays that Play accepts.
RECURSIVE Deliver(_, _)
Deliver(chans, frames) ==
    IF frames = <<>> THEN chans
    ELSE Deliver([chans EXCEPT ![Head(frames).to] = ClientSend(@, Head(frames)).ch],
                 Tail(frames))

PlayBuffered(c, column) ==
    /\ Command(c)
    /\ \E found \in OrNone(findGameForClient(Srv, c)) :
          LET R == handlePlay(Srv, c, column, found)
          IN /\ R.err = NoErr
             /\ Apply(ConnTask(c), R)
             /\ sendChans' = Deliver(sendChans, R.frames)
    /\ UNCHANGED <<budget, board>>

TimeoutBuffered(code, loserIdx) ==
    /\ CanLock
    /\ timeouts[code][loserIdx] > 0
    /\ timeouts' = [timeouts EXCEPT ![code][loserIdx] = @ - 1]
    /\ LET R == handleTimeout(Srv, code, loserIdx)
       IN /\ Apply(<<"timer", code>>, R)
          /\ sendChans' = Deliver(sendChans, R.frames)
    /\ UNCHANGED <<budget, board>>

BufferedNext ==
    \/ \E c \in Clients, column \in 0..MaxCol : InTurn(c) /\ PlayBuffered(c, column)
    \/ \E code \in Codes : TimerFire(code) /\ Free
    \/ \E code \in Codes, loserIdx \in 0..1 : TimeoutBuffered(code, loserIdx)
    \/ Tick /\ Free

BufferedSpec == MatchInit /\ [][BufferedNext]_vars

\* ------------------------------------------------------- one client's SendChan
\* The SendChan of client 1 alone: the server sends frames numbered modulo
\* NumFrameVals, the write pump takes them off the head, and the connection's
\* cleanup closes the channel.  A send on the closed channel panics.
Send(c) ==
    /\ ~panicked
    /\ LET ch == sendChans[c]
           msg == Frame(c, "queue_update", NoCode,
                        IF ch.buf = <<>> THEN 0
                        ELSE (ch.buf[Len(ch.buf)].val + 1) % NumFrameVals)
           r == ClientSend(ch, msg)
       IN IF r.panic
          THEN panicked' = TRUE /\ UNCHANGED sendChans
          ELSE sendChans' = [sendChans EXCEPT ![c] = r.ch] /\ UNCHANGED panicked

WritePump(c) ==
    /\ ~panicked
    /\ sendChans[c].buf # <<>>
    /\ sendChans' = [sendChans EXCEPT ![c].buf = Tail(@)]
    /\ UNCHANGED panicked

Close(c) ==
    /\ ~panicked
    /\ ~sendChans[c].closed
    /\ sendChans' = [sendChans EXCEPT ![c].closed = TRUE]
    /\ UNCHANGED panicked

ClientNext ==
    /\ Send(1) \/ WritePump(1) \/ Close(1)
    /\ UNCHANGED <<gamesByCode, lobby, matchmakingQueue, queueUpdatePending, clients, timeouts,
                   mu, gameMu, waiting, budget, board>>

ClientSpec == QueueInit /\ [][ClientNext]_vars

\* ================================================================ properties
Games == {gamesByCode[code] : code \in LiveCodes(Srv)}
TimerIsArmed(g) == g.Timer.state = "armed"

\* C1 (invariant G2): a Playing game has its turn timer armed, for CurrentTurn
\* and with TimeRemaining[CurrentTurn], or that timer has fired and its
\* callback waits for the server lock; a Waiting or Finished game has no
\* armed timer.
TurnTimerArmed ==
    \A code \in LiveCodes(Srv) :
        LET g == gamesByCode[code]
        IN IF g.Status = StatusPlaying
           THEN \/ g.Timer = TimerArmed(g.TimeRemaining[g.CurrentTurn], g.CurrentTurn)
                \/ timeouts[code][g.CurrentTurn] > 0
           ELSE ~TimerIsArmed(g)

\* What a caller of Game.Play can observe of a game.
Observable(g) ==
    [Board |-> g.Board, MoveCount |-> g.MoveCount, CurrentTurn |-> g.CurrentTurn,
     Status |-> g.Status, Result |-> g.Result,
     TimeRemaining |-> g.TimeRemaining, armed |-> TimerIsArmed(g)]

\* C2: a Play rejected with ErrInvalidMove leaves Board, MoveCount,
\* CurrentTurn, TimeRemaining and the armed timer of the game as they were.
InvalidMoveChangesNothing ==
    \A g \in Games, playerIdx \in 0..1, col \in PlayColumns :
        LET r == Play(g, playerIdx, col)
        IN r.err = ErrInvalidMove => Observable(r.g) = Observable(g)

\* The turn of player i at move n of game code, and its end by the clock.
TurnOf(code, i, n) ==
    /\ Exists(Srv, code)
    /\ gamesByCode[code].Status = StatusPlaying
    /\ gamesByCode[code].CurrentTurn = i
    /\ gamesByCode[code].MoveCount = n
MovedOrTimedOut(code, i, n) ==
    /\ Exists(Srv, code)
    /\ \/ gamesByCode[code].MoveCount # n
       \/ /\ gamesByCode[code].Status = StatusFinished
          /\ gamesByCode[code].Result = ResultPlayer0Win + (1 - i)

\* C3: while a game is Playing, the player at CurrentTurn either gets a move
\* accepted or loses on time: the game becomes Finished with the win of the
\* other player.
IdleTurnLosesOnTime ==
    \A code \in Codes, i \in 0..1, n \in 0..MaxMoves :
        TurnOf(code, i, n) ~> MovedOrTimedOut(code, i, n)

\* C4 (invariant S1): a Player of the lobby is a member of at most one game.
AtMostOneGame ==
    \A id \in PlayerIDs : InLobby(Srv, id) => Cardinality(GamesOf(id)) <= 1

\* C5: no frame is sent on the outbound queue of a client that was closed.
NoSendAfterClose == ~panicked

\* C6: a task that waits for the server lock holds no game's lock.
NoServerLockUnderGameLock ==
    \A task \in waiting, code \in Codes : gameMu[code] # task

\* Client c2 has taken over player id, whose first client c1 is still reading.
TookOver(c1, c2, id) ==
    /\ c1 # c2
    /\ InLobby(Srv, id)
    /\ lobby[id].sender = c2
    /\ clients[c2].state = "open" /\ clients[c2].PlayerID = id
    /\ clients[c1].state = "open" /\ clients[c1].PlayerID = id

\* C7: the disconnect cleanup of a client whose player was taken over by
\* another client leaves the player in the lobby and attached to that client.
CleanupKeepsNewSender ==
    [][\A c1, c2 \in Clients, id \in PlayerIDs :
          (TookOver(c1, c2, id) /\ clients'[c1].state = "closed")
              => (lobby'[id] # NoPlayer /\ lobby'[id].sender = c2)]_vars

\* C8 (invariant G1): Waiting iff Players[1] is absent; Playing iff both
\* players are present and Result is None; Finished iff Result is not None.
StatusConsistent ==
    \A g \in Games :
        /\ (g.Status = StatusWaiting) <=> (g.Players[1] = NoPlayerID)
        /\ (g.Status = StatusPlaying) <=>
               (g.Players[0] # NoPlayerID /\ g.Players[1] # NoPlayerID /\ g.Result = ResultNone)
        /\ (g.Status = StatusFinished) <=> (g.Result # ResultNone)

\* A second round is being played: the room's game was finished, both players
\* asked for a replay, and the joiner now sits at index 0.
SecondRoundStarted ==
    \E g \in Games :
        /\ g.Status = StatusPlaying
        /\ g.MoveCount > 0
        /\ g.Players[0] = clients[2].PlayerID
        /\ g.Players[1] = clients[1].PlayerID

\* The game was finished by a winning move of the player with index i.
WonByMove(g, i) ==
    /\ g.Status = StatusFinished
    /\ g.Result = ResultPlayer0Win + i
    /\ g.LastMove # NoMove
    /\ BoardCheckWin(g.Board, <<g.LastMove.Row, g.LastMove.Col>>)

\* C9: the callback of a timer that fired before a game was finished runs
\* after it and leaves Status and Result as they are.
LateCallbackChangesNothing ==
    [][\A code \in Codes, loserIdx \in 0..1 :
          (/\ Exists(Srv, code)
           /\ gamesByCode[code].Status = StatusFinished
           /\ timeouts'[code][loserIdx] < timeouts[code][loserIdx])
              => (/\ gamesByCode'[code] # NoGame
                  /\ gamesByCode'[code].Status = StatusFinished
                  /\ gamesByCode'[code].Result = gamesByCode[code].Result)]_vars

\* A move has won the game while the mover's fired timer waits for the lock.
WonWithCallbackPending ==
    \E code \in LiveCodes(Srv), i \in 0..1 :
        WonByMove(gamesByCode[code], i) /\ timeouts[code][i] > 0

\* C10: a Play rejected with ErrGameNotPlaying or ErrNotYourTurn leaves the
\* whole game as it was.
GuardedPlayChangesNothing ==
    \A g \in Games, playerIdx \in 0..1, col \in PlayColumns :
        LET r == Play(g, playerIdx, col)
        IN r.err \in {ErrGameNotPlaying, ErrNotYourTurn} => r.g = g

\* A player sends a play out of turn while the other player's clock has been
\* running, and it is rejected.
PlayOutOfTurnRejected ==
    \E g \in Games :
        /\ g.Status = StatusPlaying
        /\ g.MoveCount > 0
        /\ g.TurnStartedAt > 0
        /\ TimerIsArmed(g)
        /\ Play(g, 1 - g.CurrentTurn, 0).err = ErrNotYourTurn

\* Cell n lies on WinLength consecutive cells of one line (a row, a column or
\* a diagonal) that all hold colour.
LineSteps == {<<0, 1>>, <<1, 0>>, <<1, 1>>, <<1, -1>>}
OnLine(nodes, n, colour, step) ==
    \E k \in 0..(WinLength - 1) :
        \A j \in 0..(WinLength - 1) :
            LET r == n[1] + (j - k) * step[1]
                c == n[2] + (j - k) * step[2]
            IN /\ r \in 0..(Rows - 1)
               /\ c \in 0..(Cols - 1)
               /\ nodes[r][c] = colour
OnRun(nodes, n, colour) == \E step \in LineSteps : OnLine(nodes, n, colour, step)
NoCellEmpty(nodes) == \A r \in 0..(Rows - 1), c \in 0..(Cols - 1) : nodes[r][c] # CellEmpty

\* C11: an accepted Play finishes the game as the mover's win iff the token it
\* placed lies on a row, column or diagonal run of at least four cells of the
\* mover's colour; otherwise as a draw iff the board is now full; otherwise
\* the game stays Playing.
PlayOutcome ==
    \A playerIdx \in 0..1, col \in 0..(Cols - 1) :
        LET r == Play(GameOn(board, playerIdx), playerIdx, col)
            placed == <<Rows - 1 - board.colHeights[col], col>>
        IN r.err = NoErr =>
             IF OnRun(r.g.Board.nodes, placed, CellPlayer0 + playerIdx)
             THEN r.g.Status = StatusFinished /\ r.g.Result = ResultPlayer0Win + playerIdx
             ELSE IF NoCellEmpty(r.g.Board.nodes)
             THEN r.g.Status = StatusFinished /\ r.g.Result = ResultDraw
             ELSE r.g.Status = StatusPlaying /\ r.g.Result = ResultNone

\* The next token completes a diagonal of four and wins.
DiagonalWins ==
    \E playerIdx \in 0..1, col \in 0..(Cols - 1) :
        LET r == Play(GameOn(board, playerIdx), playerIdx, col)
            placed == <<Rows - 1 - board.colHeights[col], col>>
        IN /\ r.err = NoErr
           /\ OnLine(r.g.Board.nodes, placed, CellPlayer0 + playerIdx, <<1, 1>>)
           /\ r.g.Result = ResultPlayer0Win + playerIdx

\* C12: an accepted Play that does not end the game adds one to MoveCount,
\* records LastMove as the column played and the lowest empty row of that
\* column, and passes the turn from the mover to the other player.
PlayAdvances ==
    \A g \in Games, playerIdx \in 0..1, col \in 0..(Cols - 1) :
        LET r == Play(g, playerIdx, col)
            empty == {row \in 0..(Rows - 1) : g.Board.nodes[row][col] = CellEmpty}
            lowest == CHOOSE row \in empty : \A other \in empty : other <= row
        IN (r.err = NoErr /\ r.g.Status = StatusPlaying) =>
             /\ playerIdx = g.CurrentTurn
             /\ r.g.MoveCount = g.MoveCount + 1
             /\ empty # {}
             /\ r.g.LastMove = [Col |-> col, Row |-> lowest]
             /\ r.g.CurrentTurn = 1 - playerIdx

\* Both players have moved, the second on top of the first, and the next
\* move is accepted without ending the game.
SecondTokenStacked ==
    \E g \in Games, col \in 0..(Cols - 1) :
        /\ g.Status = StatusPlaying
        /\ g.MoveCount = 2
        /\ g.LastMove.Row = Rows - 2
        /\ Play(g, g.CurrentTurn, col).err = NoErr
        /\ Play(g, g.CurrentTurn, col).g.Status = StatusPlaying

\* C13: in every game MoveCount is the number of cells of the Board that are
\* not Empty.
MoveCountIsTokenCount ==
    \A g \in Games :
        g.MoveCount = Cardinality({n \in (0..(Rows - 1)) \X (0..(Cols - 1)) :
                                      g.Board.nodes[n[1]][n[2]] # CellEmpty})

\* A round was finished, both players asked for a replay, and two tokens have
\* been played in the new round.
NewRoundHasTwoTokens ==
    \E g \in Games :
        /\ g.Players[0] = clients[2].PlayerID
        /\ g.Players[1] = clients[1].PlayerID
        /\ g.MoveCount = 2
        /\ g.LastMove # NoMove
        /\ g.Board.nodes[g.LastMove.Row][g.LastMove.Col] = CellPlayer0 + (1 - g.CurrentTurn)

\* C14: in every column of a Board the cells that are not Empty are exactly
\* the bottom colHeights[c] rows, and colHeights[c] lies in 0..Rows.
TokensRestOnBottom ==
    \A c \in 0..(Cols - 1) :
        /\ board.colHeights[c] \in 0..Rows
        /\ \A r \in 0..(Rows - 1) :
               (board.nodes[r][c] # CellEmpty) <=> (r >= Rows - board.colHeights[c])

\* One column holds MaxHeight tokens of both colours, its neighbour one token
\* and the rest none.
ColumnStacked ==
    /\ board.colHeights[0] = MaxHeight
    /\ board.colHeights[1] = 1
    /\ Tokens(board) = MaxHeight + 1
    /\ board.nodes[Rows - 1][0] # board.nodes[Rows - 2][0]

\* C15: matchmakingQueue never holds the same PlayerID twice.
QueueHasNoDuplicates ==
    \A i, j \in 1..Len(matchmakingQueue) :
        matchmakingQueue[i] = matchmakingQueue[j] => i = j

\* A player is queued and a client bound to it sends joinMatchmaking again;
\* the handler returns without a frame and the queue stays as it is.
QueuedPlayerJoinsAgain ==
    \E c \in Clients, code \in FreshCodes :
        /\ clients[c].state = "open"
        /\ InQueue(matchmakingQueue, clients[c].PlayerID)
        /\ handleJoinMatchmaking(Srv, c, code, 0).srv.matchmakingQueue = matchmakingQueue

\* C16: every PlayerID in matchmakingQueue is the ID of a Player in the lobby,
\* and a PlayerID is appended to the queue only while that Player has a sender
\* attached.
QueuedPlayersAreInLobby ==
    /\ \A i \in 1..Len(matchmakingQueue) : InLobby(Srv, matchmakingQueue[i])
    /\ \A c \in Clients, code \in Codes :
          LET id == clients[c].PlayerID
              R == handleJoinMatchmaking(Srv, c, code, 0)
          IN (/\ clients[c].state = "open"
              /\ ~InQueue(matchmakingQueue, id)
              /\ InQueue(R.srv.matchmakingQueue, id)) => IsConnected(Srv, id)

\* C17: when joinMatchmaking puts a connected player behind a connected
\* player at the front of the queue, the handler removes both from the queue,
\* stores one new Playing game with the longer-waiting player as Players[0],
\* and both players receive game_start with that game's code.
MatchStartsGame ==
    \A c \in Clients, code \in FreshCodes, first \in 0..1 :
        LET q == matchmakingQueue
            id == clients[c].PlayerID
            R == handleJoinMatchmaking(Srv, c, code, first)
            g == R.srv.gamesByCode[code]
        IN (/\ clients[c].state = "open"
            /\ Len(q) >= 1
            /\ InLobby(Srv, id) /\ IsConnected(Srv, id)
            /\ InLobby(Srv, q[1]) /\ IsConnected(Srv, q[1])
            /\ ~InQueue(q, id))
           => /\ R.srv.matchmakingQueue = SubSeq(q, 2, Len(q))
              /\ g # NoGame
              /\ g.Status = StatusPlaying
              /\ g.Players[0] = q[1]
              /\ g.Players[1] = id
              /\ \A p \in {q[1], id} :
                    \E i \in 1..Len(R.frames) :
                        R.frames[i] = Frame(lobby[p].sender, "game_start", code, g.CurrentTurn)
              /\ ~SendsOnClosed(Srv, R.frames)

\* C18: a RequestReplay that returns true leaves the game Playing with an
\* empty Board, MoveCount 0, Result None, no LastMove, no replay request,
\* both clocks at InitialClock, CurrentTurn 0 and the two Players exchanged.
ReplayStartsFreshRound ==
    \A g \in Games, playerIdx \in 0..1 :
        LET r == RequestReplay(g, playerIdx)
        IN r.restarted =>
             /\ r.g.Status = StatusPlaying
             /\ \A row \in 0..(Rows - 1), col \in 0..(Cols - 1) :
                    r.g.Board.nodes[row][col] = CellEmpty
             /\ \A col \in 0..(Cols - 1) : r.g.Board.colHeights[col] = 0
             /\ r.g.MoveCount = 0
             /\ r.g.Result = ResultNone
             /\ r.g.LastMove = NoMove
             /\ r.g.ReplayRequests = [i \in 0..1 |-> FALSE]
             /\ r.g.TimeRemaining = [i \in 0..1 |-> g.InitialClock]
             /\ r.g.CurrentTurn = 0
             /\ r.g.Players[0] = g.Players[1]
             /\ r.g.Players[1] = g.Players[0]

\* A game with tokens on its board and a used clock is finished, one player
\* has asked for a replay, and the other player's request restarts it.
SecondRequestRestarts ==
    \E g \in Games, playerIdx \in 0..1 :
        /\ g.Status = StatusFinished
        /\ g.MoveCount > 0
        /\ g.TimeRemaining[1 - g.CurrentTurn] < g.InitialClock
        /\ g.ReplayRequests[1 - playerIdx]
        /\ RequestReplay(g, playerIdx).restarted

\* C19: a step removes a Playing game from gamesByCode only when, as the
\* sweep of that step runs, neither of its players has a sender attached and
\* more than reconnectGracePeriod has passed since LastPlayedAt.
PlayingGameReapedOnlyWhenAbandoned ==
    [][\A code \in Codes :
          (/\ gamesByCode[code] # NoGame
           /\ gamesByCode[code].Status = StatusPlaying
           /\ gamesByCode'[code] = NoGame)
              => /\ gamesByCode[code].LastPlayedAt > reconnectGracePeriod
                 /\ \A i \in 0..1 :
                       LET id == gamesByCode[code].Players[i]
                       IN lobby'[id] = NoPlayer \/ lobby'[id].sender = NoClient]_vars

\* A Playing game has been left by both players for longer than the grace
\* period: the next sweep deletes it.
AbandonedGameDue ==
    \E code \in LiveCodes(Srv) :
        /\ gamesByCode[code].Status = StatusPlaying
        /\ gamesByCode[code].Players[0] # gamesByCode[code].Players[1]
        /\ cleanupStaleGames(Srv).gamesByCode[code] = NoGame

\* C20: a step removes a Player from the lobby only if the Player is then in
\* no game of gamesByCode and was disconnected: it had no sender, or its
\* sender is a client whose connection has ended.
OnlyOrphansLeaveLobby ==
    [][\A id \in PlayerIDs :
          (lobby[id] # NoPlayer /\ lobby'[id] = NoPlayer)
              => /\ \A code \in Codes :
                       gamesByCode'[code] # NoGame => ~HasPlayer(gamesByCode'[code], id)
                 /\ \/ lobby[id].sender = NoClient
                    \/ clients'[lobby[id].sender].state = "closed"]_vars

\* C21: the Code that NewGame draws for a game created by createGame or by a
\* matchmaking pairing is the Code of no game in gamesByCode, whichever code
\* of the alphabet randomCode returns.
NewGameCodeIsUnused ==
    \A c \in Clients, code \in Codes, first \in 0..1 :
        clients[c].state = "open" =>
            /\ handleCreateGame(Srv, c, code).err = NoErr => gamesByCode[code] = NoGame
            /\ handleJoinMatchmaking(Srv, c, code, first).srv.gamesByCode # gamesByCode
                   => gamesByCode[code] = NoGame

\* C22: leaveLobby sent by a client whose player is in a Playing game finishes
\* that game with the opponent as winner and enqueues game_over for the room
\* before the welcome for the caller.
LeaveLobbyForfeits ==
    \A c \in Clients, code \in LiveCodes(Srv) :
        LET id == clients[c].PlayerID
            g == gamesByCode[code]
            playerIdx == GetPlayerIndex(g, id)
            R == handleLeaveLobby(Srv, c)
            after == R.srv.gamesByCode[code]
        IN (clients[c].state = "open" /\ g.Status = StatusPlaying /\ playerIdx >= 0)
           => /\ after # NoGame
              /\ after.Status = StatusFinished
              /\ after.Result = ResultPlayer0Win + (1 - playerIdx)
              /\ \E i, j \in 1..Len(R.frames) :
                    /\ i < j
                    /\ R.frames[i].type = "game_over" /\ R.frames[i].code = code
                    /\ R.frames[j].type = "welcome"

\* C23: in every client's SendChan the move frames of a game stand in the
\* order of their moves and before every game_over frame of that game; the
\* frame of a winning move is buffered for both players, ahead of game_over.
MoveFramesInOrder ==
    /\ \A c \in Clients :
          LET q == sendChans[c].buf
          IN \A i, j \in 1..Len(q) :
                (q[i].type = "move" /\ q[i].code = q[j].code /\ i < j)
                    => \/ q[j].type = "move" /\ q[i].val < q[j].val
                       \/ q[j].type = "game_over"
    /\ \A code \in LiveCodes(Srv), playerIdx \in 0..1, p \in 0..1 :
          WonByMove(gamesByCode[code], playerIdx)
              => LET q == sendChans[lobby[gamesByCode[code].Players[p]].sender].buf
                 IN \E i, j \in 1..Len(q) :
                       /\ i < j
                       /\ q[i].type = "move" /\ q[i].val = gamesByCode[code].MoveCount
                       /\ q[j].type = "game_over" /\ q[j].code = code

\* A game was won by its seventh move and the winner's client has all seven
\* move frames and the game_over frame buffered.
WinFramesBuffered ==
    \E code \in LiveCodes(Srv), playerIdx \in 0..1 :
        /\ WonByMove(gamesByCode[code], playerIdx)
        /\ LET q == sendChans[lobby[gamesByCode[code].Players[playerIdx]].sender].buf
           IN /\ Len(q) = MaxMatchMoves + 1
              /\ q[Len(q)].type = "game_over"

\* C24: a command handler that reports an error enqueues one frame, the error
\* frame with that error's text, for the calling client, and no frame for any
\* other client; this holds for every command and every input of it.
ErrorGoesToCallerOnly ==
    \A c \in Clients :
        clients[c].state = "open" =>
            LET Alone(R) == R.err # NoErr =>
                                /\ Len(R.frames) = 1
                                /\ R.frames[1].to = c
                                /\ R.frames[1].type = "error"
                                /\ R.frames[1].val = R.err
                found == OrNone(findGameForClient(Srv, c))
            IN /\ \A usernameOK \in BOOLEAN, newID \in FreshIDs :
                      Alone(handleLogin(Srv, c, usernameOK, NoPlayerID, newID, NoCode))
               /\ \A usernameOK \in BOOLEAN, priorID \in PlayerIDs :
                      InLobby(Srv, priorID) =>
                          \A code \in OrNone(GamesOf(priorID)) :
                              Alone(handleLogin(Srv, c, usernameOK, priorID, NoPlayerID, code))
               /\ \A code \in Codes, first \in 0..1 :
                      /\ Alone(handleCreateGame(Srv, c, code))
                      /\ Alone(handleJoinGame(Srv, c, code, first))
                      /\ Alone(handleJoinMatchmaking(Srv, c, code, first))
               /\ \A f \in found :
                      /\ \A column \in PlayColumns : Alone(handlePlay(Srv, c, column, f))
                      /\ Alone(handleReplay(Srv, c, f))
                      /\ Alone(handleForfeit(Srv, c, f))

\* A client plays out of turn in a Playing game whose other player is
\* connected through another client: the play is rejected.
OutOfTurnPlayRejected ==
    \E c \in Clients, code \in LiveCodes(Srv), column \in PlayColumns :
        LET g == gamesByCode[code]
            playerIdx == GetPlayerIndex(g, clients[c].PlayerID)
        IN /\ clients[c].state = "open"
           /\ code \in findGameForClient(Srv, c)
           /\ g.Status = StatusPlaying
           /\ playerIdx = 1 - g.CurrentTurn
           /\ IsConnected(Srv, g.Players[g.CurrentTurn])
           /\ lobby[g.Players[g.CurrentTurn]].sender # c
           /\ handlePlay(Srv, c, column, code).err = ErrNotYourTurn

\* C25: once a change has scheduled a queue update (queueUpdatePending is
\* set by broadcastQueueUpdate), the fan-out eventually runs and clears it,
\* when the armed timer fires and the server lock is granted fairly.
PendingUpdateFansOut == queueUpdatePending ~> ~queueUpdatePending

\* C26: a login with the PlayerID of a player who is in a game enqueues for
\* the calling client welcome and then one game_state of a game the player is
\* in, nothing else and nothing for anyone else, and leaves every game of
\* gamesByCode as it was.
ReloginSendsSnapshot ==
    \A c \in Clients, priorID \in PlayerIDs, usernameOK \in BOOLEAN :
        (clients[c].state = "open" /\ GamesOf(priorID) # {}) =>
            \A found \in (IF InLobby(Srv, priorID) THEN GamesOf(priorID) ELSE {NoCode}),
               newID \in (IF InLobby(Srv, priorID) THEN {NoPlayerID} ELSE FreshIDs) :
                LET R == handleLogin(Srv, c, usernameOK, priorID, newID, found)
                IN /\ R.err = NoErr
                   /\ Len(R.frames) = 2
                   /\ R.frames[1] = Frame(c, "welcome", NoCode, priorID)
                   /\ R.frames[2].to = c
                   /\ R.frames[2].type = "game_state"
                   /\ R.frames[2].code \in GamesOf(priorID)
                   /\ R.srv.gamesByCode = gamesByCode

\* A player of a Playing game with moves on the board has lost its
\* connection, and a client is open to log in with its PlayerID.
DisconnectedPlayerCanRelogin ==
    \E c \in Clients, priorID \in PlayerIDs, code \in LiveCodes(Srv) :
        /\ clients[c].state = "open"
        /\ InLobby(Srv, priorID)
        /\ ~IsConnected(Srv, priorID)
        /\ HasPlayer(gamesByCode[code], priorID)
        /\ gamesByCode[code].Status = StatusPlaying
        /\ gamesByCode[code].MoveCount > 0
        /\ handleLogin(Srv, c, TRUE, priorID, NoPlayerID, code).err = NoErr

\* C27: Client.Send on a SendChan that is not closed returns at once in both
\* branches of its select: with sendBufferSize messages buffered it drops the
\* message, leaves the buffered messages and their order as they are and
\* asks for the connection to be closed; with fewer it appends the message
\* at the tail and changes nothing else.
SendDropsWhenFull ==
    \A c \in Clients, val \in 0..(NumFrameVals - 1) :
        LET ch == sendChans[c]
            msg == Frame(c, "queue_update", NoCode, val)
            r == ClientSend(ch, msg)
        IN ~ch.closed =>
              /\ ~r.panic
              /\ Len(ch.buf) <= sendBufferSize
              /\ IF Len(ch.buf) = sendBufferSize
                 THEN r.ch.buf = ch.buf /\ r.ch.tooSlow
                 ELSE r.ch = [ch EXCEPT !.buf = Append(ch.buf, msg)]

\* The SendChan holds sendBufferSize messages, a message was dropped, and
\* the channel is still open for the next Send.
SendChanFull ==
    \E c \in Clients :
        /\ Len(sendChans[c].buf) = sendBufferSize
        /\ sendChans[c].tooSlow
        /\ ~sendChans[c].closed

\* C28: RequestReplay leaves a game that is not Finished as it is and returns
\* false; on a Finished game it returns true exactly when the other index has
\* its request recorded, and otherwise only records the caller's.  A request
\* is recorded only by a RequestReplay of that index on the Finished game, no
\* game that is not Finished has one recorded, and a game leaves Finished only
\* through the RequestReplay that finds the other index recorded: the restart
\* takes both indices since the game became Finished, and one player's
\* requests alone never restart it.
ReplayNeedsBothPlayers ==
    /\ [](\A g \in Games, playerIdx \in 0..1 :
             LET r == RequestReplay(g, playerIdx)
             IN /\ g.Status # StatusFinished
                     => /\ r.g = g /\ ~r.restarted
                        /\ g.ReplayRequests = [i \in 0..1 |-> FALSE]
                /\ r.restarted <=> (g.Status = StatusFinished /\ g.ReplayRequests[1 - playerIdx])
                /\ (g.Status = StatusFinished /\ ~g.ReplayRequests[1 - playerIdx])
                     => r.g = [g EXCEPT !.ReplayRequests[playerIdx] = TRUE])
    /\ [][\A code \in Codes :
             LET g == gamesByCode[code]
                 h == gamesByCode'[code]
             IN (g # NoGame /\ h # NoGame)
                => /\ \A i \in 0..1 :
                         (~g.ReplayRequests[i] /\ h.ReplayRequests[i])
                            => g.Status = StatusFinished /\ h = RequestReplay(g, i).g
                   /\ (g.Status = StatusFinished /\ h.Status # StatusFinished)
                         => \E i \in 0..1 : /\ g.ReplayRequests[1 - i]
                                            /\ h = RequestReplay(g, i).g]_vars

\* A Finished game holds the request of one player only, and that player
\* asks again.
OnePlayerAsksAgain ==
    \E g \in Games, playerIdx \in 0..1 :
        /\ g.Status = StatusFinished
        /\ g.ReplayRequests[playerIdx]
        /\ ~g.ReplayRequests[1 - playerIdx]
        /\ ~RequestReplay(g, playerIdx).restarted

\* C29: every handler and every timer callback that took the server lock has
\* released it when it is done: whenever no handler is running, the server
\* lock is free, no game's lock is held and no task waits for a lock.
EveryHandlerReleasesLocks ==
    /\ mu = NoTask
    /\ waiting = {}
    /\ \A code \in Codes : gameMu[code] = NoTask

\* C30: a timer callback that finishes a game forfeits the player whose turn
\* it is when the callback runs: the loser it was armed for is CurrentTurn of
\* the game it finds Playing.
TimeoutForfeitsPlayerInTurn ==
    [][\A code \in Codes, loserIdx \in 0..1 :
          (/\ timeouts'[code][loserIdx] < timeouts[code][loserIdx]
           /\ gamesByCode[code] # NoGame
           /\ gamesByCode[code].Status = StatusPlaying
           /\ gamesByCode'[code].Status = StatusFinished)
              => loserIdx = gamesByCode[code].CurrentTurn]_vars

\* C31: in the first turn of each player in a round, which begins with
\* TimeRemaining = InitialClock, the amount debited from the clock of the
\* player to move is at most the time elapsed since TurnStartedAt; and neither
\* Play nor Forfeit changes the clock of the player who is not to move.
ClockDebitedOnce ==
    \A g \in Games :
        g.Status = StatusPlaying =>
            /\ g.MoveCount <= 1
                  => g.InitialClock - g.TimeRemaining[g.CurrentTurn] <= g.TurnStartedAt
            /\ \A playerIdx \in 0..1, col \in PlayColumns :
                  /\ Play(g, playerIdx, col).g.TimeRemaining[1 - g.CurrentTurn]
                        = g.TimeRemaining[1 - g.CurrentTurn]
                  /\ Forfeit(g, playerIdx).TimeRemaining[1 - g.CurrentTurn]
                        = g.TimeRemaining[1 - g.CurrentTurn]

\* C32: a handler or timer callback enqueues game_over for a game only when
\* it has taken that game from Playing to Finished, and the frame then
\* carries the game's Result, which is not None.
GameOverOnlyOnFinish ==
    LET Ends(R) == \A i \in 1..Len(R.frames) :
                       R.frames[i].type = "game_over"
                           => /\ gamesByCode[R.frames[i].code].Status = StatusPlaying
                              /\ R.srv.gamesByCode[R.frames[i].code].Status = StatusFinished
                              /\ R.frames[i].val # ResultNone
    IN /\ \A c \in Clients :
             clients[c].state = "open" =>
                 /\ Ends(handleLeaveLobby(Srv, c))
                 /\ \A found \in OrNone(findGameForClient(Srv, c)) :
                        /\ Ends(handleForfeit(Srv, c, found))
                        /\ \A column \in PlayColumns : Ends(handlePlay(Srv, c, column, found))
       /\ \A code \in Codes, loserIdx \in 0..1 :
             timeouts[code][loserIdx] > 0 => Ends(handleTimeout(Srv, code, loserIdx))

\* C33: every game_state frame that login, createGame or joinGame enqueues
\* goes to the client of a player of that game and carries that player's own
\* index in the game's Players.
SnapshotCarriesOwnIndex ==
    LET Own(R) == \A i \in 1..Len(R.frames) :
                      R.frames[i].type = "game_state"
                          => LET g == R.srv.gamesByCode[R.frames[i].code]
                                 idx == R.frames[i].val
                             IN /\ idx \in 0..1
                                /\ g.Players[idx] # NoPlayerID
                                /\ R.srv.lobby[g.Players[idx]].sender = R.frames[i].to
    IN \A c \in Clients :
           clients[c].state = "open" =>
               /\ \A priorID \in PlayerIDs :
                      InLobby(Srv, priorID) =>
                          \A found \in OrNone(GamesOf(priorID)) :
                              Own(handleLogin(Srv, c, TRUE, priorID, NoPlayerID, found))
               /\ \A code \in FreshCodes : Own(handleCreateGame(Srv, c, code))
               /\ \A code \in Codes, first \in 0..1 : Own(handleJoinGame(Srv, c, code, first))

\* C34: a game that a play, a forfeit, a leaveLobby or a timer callback has
\* just taken from Playing to Finished is kept by a sweep that runs at that
\* moment, before any of reconnectGracePeriod has passed.
FinishedGameOutlivesSweep ==
    LET Kept(R) == \A code \in LiveCodes(Srv) :
                       (/\ gamesByCode[code].Status = StatusPlaying
                        /\ R.srv.gamesByCode[code] # NoGame
                        /\ R.srv.gamesByCode[code].Status = StatusFinished)
                           => cleanupStaleGames(R.srv).gamesByCode[code] # NoGame
    IN /\ \A c \in Clients :
             clients[c].state = "open" =>
                 /\ Kept(handleLeaveLobby(Srv, c))
                 /\ \A found \in OrNone(findGameForClient(Srv, c)) :
                        /\ Kept(handleForfeit(Srv, c, found))
                        /\ \A column \in PlayColumns : Kept(handlePlay(Srv, c, column, found))
       /\ \A code \in Codes, loserIdx \in 0..1 :
             timeouts[code][loserIdx] > 0 => Kept(handleTimeout(Srv, code, loserIdx))

PlayersAreDistinct ==
    \A g \in Games :
        (g.Players[0] # NoPlayerID /\ g.Players[1] # NoPlayerID) => g.Players[0] # g.Players[1]

\* The creator of a Waiting game sends joinGame with the code of that game
\* and is not added a second time.
CreatorJoinsOwnGame ==
    \E c \in Clients, code \in LiveCodes(Srv), first \in 0..1 :
        /\ clients[c].state = "open"
        /\ gamesByCode[code].Status = StatusWaiting
        /\ gamesByCode[code].Players[0] = clients[c].PlayerID
        /\ InLobby(Srv, clients[c].PlayerID)
        /\ handleJoinGame(Srv, c, code, first).err = NoErr
        /\ handleJoinGame(Srv, c, code, first).srv.gamesByCode[code].Players[1] = NoPlayerID

====
